---- MODULE Spec2Model ----
(***************************************************************************)
(* The task processor of asynq (processor.go): the dispatch loop, the      *)
(* worker wrappers and their handler goroutines, the counting semaphore    *)
(* sema, the abort / done / quit channels, and start(), stop() and         *)
(* terminate().  The store (rdb.RDB) is kept as the queues, the            *)
(* in-progress list and the retry / dead / completed collections, with     *)
(* one atomic operator per store operation.                                *)
(***************************************************************************)
EXTENDS Integers, Sequences, FiniteSets, TLC

\* ---------------------------------------------------------------- bounds
NumMsgs == 2          \* task messages in the store
Concurrency == 1      \* n given to newProcessor: cap(p.sema)
MaxRetry == 1         \* largest Retry field among the messages
NumStopCallers == 1   \* goroutines that call stop() (terminate() has its own)
MaxStoreErrs == 1     \* store calls that fail, where the store is unreliable
MaxPriority == 3      \* largest weight in the queue configurations tried

Msgs == 1..NumMsgs
TermCaller == 0
StopCallers == 1..NumStopCallers
Callers == {TermCaller} \cup StopCallers
NoMsg == 0

\* ------------------------------------------------------- configuration
QNames == {"A", "B"}
\* qcfg given to newProcessor where the whole processor runs
MainConfig == ("A" :> 2) @@ ("B" :> 1)
\* the qcfg maps given to newProcessor where p.queues() is examined: one to
\* three queues, weights 0..MaxPriority
CfgNames == {"A", "B", "C"}
Configs == UNION {[D -> 0..MaxPriority] : D \in SUBSET CfgNames \ {{}}}
\* TaskMessage fields the processor reads: the source queue and Retry.
MsgQueue(m) == IF m % 2 = 1 THEN "A" ELSE "B"
MsgRetry(m) == (m - 1) % (MaxRetry + 1)

VARIABLES
    \* the store
    queue,        \* queue name -> sequence of messages (head first)
    inProgress,   \* sequence of messages dequeued and not yet finished
    retryBucket,  \* set of messages waiting for a retry
    dead,         \* set of messages that exhausted their retries
    completed,    \* set of messages removed by Done
    Retried,      \* message -> attempts already made
    errBudget,    \* store failures the environment may still inject
    \* the processor
    queueConfig,  \* p.queueConfig: queue name -> priority
    orderedQueues,\* p.orderedQueues (<< >> is nil)
    sema,         \* tokens in p.sema
    abort,        \* p.abort is closed
    quit,         \* p.quit is closed
    once,         \* p.once: "new", "running" (f executing), "done"
    startPc,      \* start(): "new", "restored", "spawned"
    loopPc,       \* dispatch goroutine: "none", "top", "exec", "wait", "exited"
    loopMsg,      \* msg held by exec() between Dequeue and the select
    cpc,          \* caller -> position in stop() / terminate()
    tAcq,         \* i of terminate()'s acquire loop
    timerArmed,   \* time.AfterFunc(timeout, close(quit)) is pending
    \* the worker goroutines, each named by the msg it was started with
    wpc,          \* msg -> its worker: "none", "wait" (in the select), "quit"
                  \* (woken from the select by the close of p.quit), "terminal"
    wres,         \* msg -> resErr its worker received
    hrun,         \* msg -> the handler goroutine of its worker is running
    resCh,        \* msg -> content of resCh ("empty" or an error value)
    releasing,    \* workers that have only the deferred <-p.sema left
    orphans,      \* handler goroutines still running after their worker quit
    \* a caller of p.queues()
    qpc,          \* "new", "shuffled" (names built and shuffled), "returned"
    shuffledNames,\* the local names of queues(), after r.Shuffle
    returnedNames,\* the list the last call returned, until the next shuffle
    \* history
    abortCloses,  \* close(p.abort) executions
    doneSent,     \* values delivered on p.done
    leftover,     \* the messages in the in-progress list at construction,
                  \* remembered until the first Dequeue call
    dequeued,     \* Dequeue has been called by this processor
    handed,       \* message -> handler invocations by this processor
    owed,         \* message -> Dequeue results not yet settled
    lastFate,     \* message -> how its last Dequeue was settled
    lastErr,      \* message -> the error given to the Retry or Kill that put
                  \* it in the bucket it is in ("nil" otherwise)
    late,         \* a handler was still running when p.quit was closed
    execsAfterAbort \* exec() calls the running loop started with p.abort
                  \* closed: "none", "one", "many"

storeVars == <<queue, inProgress, retryBucket, dead, completed, Retried, errBudget>>
selVars == <<queueConfig, qpc, shuffledNames, returnedNames>>
procVars == <<selVars, orderedQueues, sema, abort, quit, once, startPc, loopPc, loopMsg,
              cpc, tAcq, timerArmed>>
workerVars == <<wpc, wres, hrun, resCh, releasing, orphans>>
histVars == <<abortCloses, doneSent, leftover, dequeued, handed, owed, lastFate,
              lastErr, late, execsAfterAbort>>
vars == <<storeVars, procVars, workerVars, histVars>>

\* ------------------------------------------------------------ sequences
RECURSIVE SeqToSet(_)
SeqToSet(s) == IF s = << >> THEN {} ELSE {Head(s)} \cup SeqToSet(Tail(s))

RECURSIVE Remove(_, _)
\* s without the occurrences of m (LREM)
Remove(s, m) ==
    IF s = << >> THEN << >>
    ELSE IF Head(s) = m THEN Remove(Tail(s), m)
    ELSE <<Head(s)>> \o Remove(Tail(s), m)

RECURSIVE Count(_, _)
Count(s, m) ==
    IF s = << >> THEN 0
    ELSE (IF Head(s) = m THEN 1 ELSE 0) + Count(Tail(s), m)

RECURSIVE Filter(_, _)
\* the messages of s whose source queue is q, in order
Filter(s, q) ==
    IF s = << >> THEN << >>
    ELSE IF MsgQueue(Head(s)) = q THEN <<Head(s)>> \o Filter(Tail(s), q)
    ELSE Filter(Tail(s), q)

\* ------------------------------------------------------- queue selector
RECURSIVE TotalPriority(_, _)
TotalPriority(qcfg, names) ==
    IF names = {} THEN 0
    ELSE LET q == CHOOSE x \in names : TRUE
         IN qcfg[q] + TotalPriority(qcfg, names \ {q})

RECURSIVE Shuffled(_)
\* Every order r.Shuffle can leave names in: each queue name priority times.
Shuffled(qcfg) ==
    IF \A q \in DOMAIN qcfg : qcfg[q] = 0 THEN {<< >>}
    ELSE UNION {{<<q>> \o s : s \in Shuffled([qcfg EXCEPT ![q] = @ - 1])} :
                   q \in {x \in DOMAIN qcfg : qcfg[x] > 0}}

RECURSIVE uniqFrom(_, _, _)
uniqFrom(names, l, res) ==
    IF names = << >> THEN res
    ELSE LET res2 == IF Head(names) \in SeqToSet(res) THEN res
                     ELSE Append(res, Head(names))
         IN IF Len(res2) = l THEN res2 ELSE uniqFrom(Tail(names), l, res2)

\* Mutant: the first l names, duplicates kept.
uniq_NoDedup(names, l) == IF Len(names) <= l THEN names ELSE SubSeq(names, 1, l)

\* uniq dedupes names, keeping first occurrences, and stops at length l.
uniq(names, l) == uniqFrom(names, l, << >>)

\* Mutant: Less written with > .
byPriorityLess_Greater(qcfg, a, b) == qcfg[a] > qcfg[b]

\* byPriority.Less: x[i].priority < x[j].priority
byPriorityLess(qcfg, a, b) == qcfg[a] < qcfg[b]

\* The results sort.Sort(sort.Reverse(byPriority(queues))) can give: the
\* queues of the map, in an order in which no element is Less, under the
\* reversed Less, than one before it (the sort is not stable and the map is
\* iterated in any order).
sortByPriority(qcfg) ==
    {s \in [1..Cardinality(DOMAIN qcfg) -> DOMAIN qcfg] :
        /\ \A i, j \in DOMAIN s : i # j => s[i] # s[j]
        /\ \A i, j \in DOMAIN s : i < j => ~byPriorityLess(qcfg, s[i], s[j])}

\* queues() returns before it builds names: one queue, or strict priority.
QueuesEarly == Cardinality(DOMAIN queueConfig) = 1 \/ orderedQueues # << >>

\* What p.queues() returns when r.Shuffle leaves names in the order s.
queuesFrom(s) ==
    IF Cardinality(DOMAIN queueConfig) = 1
    THEN <<CHOOSE q \in DOMAIN queueConfig : TRUE>>
    ELSE IF orderedQueues # << >> THEN orderedQueues
    ELSE uniq(s, Cardinality(DOMAIN queueConfig))

\* The lists p.queues() can return.
queues == {queuesFrom(s) : s \in Shuffled(queueConfig)}

\* ---------------------------------------------------------------- store
RECURSIVE FirstNonEmpty(_)
\* The first queue of qnames that holds a message, "" when there is none.
FirstNonEmpty(qnames) ==
    IF qnames = << >> THEN ""
    ELSE IF queue[Head(qnames)] # << >> THEN Head(qnames)
    ELSE FirstNonEmpty(Tail(qnames))

\* The outcomes the environment may give a store call: ok, or an error while
\* it still has failures to inject.
StoreOutcomes == IF errBudget > 0 THEN {TRUE, FALSE} ELSE {TRUE}

StoreFailed ==
    /\ errBudget' = errBudget - 1
    /\ UNCHANGED <<queue, inProgress, retryBucket, dead, completed, Retried>>

\* Dequeue: head of queue q moves to the in-progress list.
StoreDequeue(q, ok) ==
    IF ok
    THEN /\ queue' = [queue EXCEPT ![q] = Tail(@)]
         /\ inProgress' = Append(inProgress, Head(queue[q]))
         /\ UNCHANGED <<retryBucket, dead, completed, Retried, errBudget>>
    ELSE StoreFailed

\* Requeue: from in-progress back to the head of the source queue.
StoreRequeue(m, ok) ==
    IF ok
    THEN /\ inProgress' = Remove(inProgress, m)
         /\ queue' = [queue EXCEPT ![MsgQueue(m)] = <<m>> \o @]
         /\ UNCHANGED <<retryBucket, dead, completed, Retried, errBudget>>
    ELSE StoreFailed

\* Done: removed from in-progress.
StoreDone(m, ok) ==
    IF ok
    THEN /\ inProgress' = Remove(inProgress, m)
         /\ completed' = completed \cup {m}
         /\ UNCHANGED <<queue, retryBucket, dead, Retried, errBudget>>
    ELSE StoreFailed

\* Retry: removed from in-progress, Retried incremented, put in the retry bucket.
StoreRetry(m, ok) ==
    IF ok
    THEN /\ inProgress' = Remove(inProgress, m)
         /\ Retried' = [Retried EXCEPT ![m] = @ + 1]
         /\ retryBucket' = retryBucket \cup {m}
         /\ UNCHANGED <<queue, dead, completed, errBudget>>
    ELSE StoreFailed

\* Kill: removed from in-progress, put in the dead bucket.
StoreKill(m, ok) ==
    IF ok
    THEN /\ inProgress' = Remove(inProgress, m)
         /\ dead' = dead \cup {m}
         /\ UNCHANGED <<queue, retryBucket, completed, Retried, errBudget>>
    ELSE StoreFailed

\* RestoreUnfinished: every in-progress message back to the tail of its queue.
StoreRestoreUnfinished(ok) ==
    IF ok
    THEN /\ queue' = [q \in QNames |-> queue[q] \o Filter(inProgress, q)]
         /\ inProgress' = << >>
         /\ UNCHANGED <<retryBucket, dead, completed, Retried, errBudget>>
    ELSE StoreFailed

\* The scheduler (another component) moves a due message from the retry
\* bucket to the tail of its queue.
Scheduler(m) ==
    /\ m \in retryBucket
    /\ retryBucket' = retryBucket \ {m}
    /\ queue' = [queue EXCEPT ![MsgQueue(m)] = Append(@, m)]
    /\ UNCHANGED <<inProgress, dead, completed, Retried, errBudget>>
    /\ lastErr' = [lastErr EXCEPT ![m] = "nil"]
    /\ UNCHANGED <<execsAfterAbort, abortCloses, doneSent, leftover, dequeued, handed, owed, lastFate,
                   late>>
    /\ UNCHANGED <<procVars, workerVars>>

\* ------------------------------------------------------------ processor
\* p.restore(), p.requeue(), p.markAsDone(), p.retry(), p.kill(): the store
\* call; an error is logged and dropped.
restore(ok) == StoreRestoreUnfinished(ok)
requeue(m, ok) == StoreRequeue(m, ok)
markAsDone(m, ok) == StoreDone(m, ok)
retry(m, ok) == StoreRetry(m, ok)
kill(m, ok) == StoreKill(m, ok)

\* What a handler call can do, and the error perform() makes of it.
HandlerOutcomes == {"ok", "fail", "panic"}
perform(outcome) ==
    CASE outcome = "ok" -> "nil"
      [] outcome = "fail" -> "boom"
      [] outcome = "panic" -> "panic: 42"

RECURSIVE Ascending(_)
\* the messages of S in increasing order
Ascending(S) ==
    IF S = {} THEN << >>
    ELSE LET m == CHOOSE x \in S : \A y \in S : x <= y
         IN <<m>> \o Ascending(S \ {m})

\* newProcessor, on a store in which a previous run may have left messages
\* in the in-progress list.
InitStore(left, budget) ==
    /\ queue = [q \in QNames |-> Ascending({m \in Msgs \ left : MsgQueue(m) = q})]
    /\ inProgress = Ascending(left)
    /\ retryBucket = {}
    /\ dead = {}
    /\ completed = {}
    /\ Retried = [m \in Msgs |-> 0]
    /\ errBudget = budget

newProcessor(qcfg, strict) ==
    /\ queueConfig = qcfg
    /\ orderedQueues \in (IF strict THEN sortByPriority(qcfg) ELSE {<< >>})
    /\ sema = 0
    /\ abort = FALSE
    /\ quit = FALSE
    /\ once = "new"
    /\ startPc = "new"
    /\ loopPc = "none"
    /\ loopMsg = NoMsg
    /\ cpc = [c \in Callers |-> "idle"]
    /\ tAcq = 0
    /\ timerArmed = FALSE
    /\ wpc = [m \in Msgs |-> "none"]
    /\ wres = [m \in Msgs |-> "nil"]
    /\ hrun = [m \in Msgs |-> FALSE]
    /\ resCh = [m \in Msgs |-> "empty"]
    /\ releasing = 0
    /\ orphans = 0
    /\ qpc = "new"
    /\ shuffledNames = << >>
    /\ returnedNames = << >>

InitHistory ==
    /\ abortCloses = 0
    /\ doneSent = 0
    /\ leftover = SeqToSet(inProgress)
    /\ dequeued = FALSE
    /\ handed = [m \in Msgs |-> 0]
    /\ owed = [m \in Msgs |-> 0]
    /\ lastFate = [m \in Msgs |-> "none"]
    /\ lastErr = [m \in Msgs |-> "nil"]
    /\ late = FALSE
    /\ execsAfterAbort = "none"

Init ==
    /\ \E left \in SUBSET Msgs : InitStore(left, 0)
    /\ \E strict \in BOOLEAN : newProcessor(MainConfig, strict)
    /\ InitHistory

\* ---- start()
\* Mutant: start() goes to its go statement without restore().
StartRestore_NoRestore ==
    /\ startPc = "new"
    /\ startPc' = "restored"
    /\ UNCHANGED <<selVars, orderedQueues, sema, abort, quit, once, loopPc, loopMsg, cpc,
                   tAcq, timerArmed>>
    /\ UNCHANGED <<storeVars, workerVars, histVars>>

\* restore() runs in the caller, before the go statement.
StartRestore ==
    /\ startPc = "new"
    /\ \E ok \in StoreOutcomes : restore(ok)
    /\ startPc' = "restored"
    /\ UNCHANGED <<selVars, orderedQueues, sema, abort, quit, once, loopPc, loopMsg, cpc,
                   tAcq, timerArmed>>
    /\ UNCHANGED <<workerVars, histVars>>

StartSpawn ==
    /\ startPc = "restored"
    /\ startPc' = "spawned"
    /\ loopPc' = "top"
    /\ UNCHANGED <<selVars, orderedQueues, sema, abort, quit, once, loopMsg, cpc, tAcq,
                   timerArmed>>
    /\ UNCHANGED <<storeVars, workerVars, histVars>>

\* ---- stop()
\* Where a caller goes on when its p.stop() returns.
AfterStop(c) == IF c = TermCaller THEN "t_timer" ELSE "idle"

\* Mutant: stop() without the sync.Once, every caller runs f.
OnceDo_NoOnce(c) ==
    /\ once' = "running"
    /\ cpc' = [cpc EXCEPT ![c] = "f_close"]

\* p.once.Do(f): the first caller runs f, a caller that arrives while f runs
\* waits for it, a later one returns at once.
OnceDo(c) ==
    /\ once' = IF once = "new" THEN "running" ELSE once
    /\ cpc' = [cpc EXCEPT ![c] = CASE once = "new" -> "f_close"
                                   [] once = "running" -> "once_wait"
                                   [] once = "done" -> AfterStop(c)]

CallStop(c) ==
    /\ c \in StopCallers
    /\ cpc[c] = "idle"
    /\ OnceDo(c)
    /\ UNCHANGED <<selVars, orderedQueues, sema, abort, quit, startPc, loopPc, loopMsg,
                   tAcq, timerArmed>>
    /\ UNCHANGED <<storeVars, workerVars, histVars>>

OnceWake(c) ==
    /\ cpc[c] = "once_wait"
    /\ once = "done"
    /\ cpc' = [cpc EXCEPT ![c] = AfterStop(c)]
    /\ UNCHANGED <<selVars, orderedQueues, sema, abort, quit, once, startPc, loopPc,
                   loopMsg, tAcq, timerArmed>>
    /\ UNCHANGED <<storeVars, workerVars, histVars>>

\* Mutant: stop() sends on p.done without closing p.abort first.
StopCloseAbort_NoClose(c) ==
    /\ cpc[c] = "f_close"
    /\ cpc' = [cpc EXCEPT ![c] = "f_send"]
    /\ UNCHANGED <<selVars, orderedQueues, sema, abort, quit, once, startPc, loopPc,
                   loopMsg, tAcq, timerArmed>>
    /\ UNCHANGED <<storeVars, workerVars, histVars>>

\* close(p.abort); the next statement is the send on p.done
StopCloseAbort(c) ==
    /\ cpc[c] = "f_close"
    /\ abort' = TRUE
    /\ abortCloses' = abortCloses + 1
    /\ cpc' = [cpc EXCEPT ![c] = "f_send"]
    /\ UNCHANGED <<selVars, orderedQueues, sema, quit, once, startPc, loopPc, loopMsg,
                   tAcq, timerArmed>>
    /\ UNCHANGED <<execsAfterAbort, doneSent, leftover, dequeued, handed, owed, lastFate, lastErr, late>>
    /\ UNCHANGED <<storeVars, workerVars>>

\* p.done <- struct{}{}: p.done has no buffer and the dispatch goroutine never
\* waits in a receive, so the sender parks on the channel until a select of the
\* loop finds it there.
StopSend(c) ==
    /\ cpc[c] = "f_send"
    /\ cpc' = [cpc EXCEPT ![c] = "f_parked"]
    /\ UNCHANGED <<selVars, orderedQueues, sema, abort, quit, once, startPc, loopPc,
                   loopMsg, tAcq, timerArmed>>
    /\ UNCHANGED <<storeVars, workerVars, histVars>>

\* ---- the dispatch goroutine
SenderWaiting == \E c \in Callers : cpc[c] = "f_parked"

\* Mutant: the receive on p.done leaves the select but not the for loop.
LoopRecvDone_Continue ==
    /\ loopPc = "top"
    /\ \E c \in Callers :
        /\ cpc[c] = "f_parked"
        /\ cpc' = [cpc EXCEPT ![c] = AfterStop(c)]
    /\ loopPc' = "exec"
    /\ once' = "done"
    /\ doneSent' = doneSent + 1
    /\ UNCHANGED <<selVars, orderedQueues, sema, abort, quit, startPc, loopMsg, tAcq,
                   timerArmed>>
    /\ UNCHANGED <<execsAfterAbort, abortCloses, leftover, dequeued, handed, owed, lastFate, lastErr, late>>
    /\ UNCHANGED <<storeVars, workerVars>>

\* case <-p.done: the rendezvous with the p.done <- struct{}{} of stop();
\* the sender's f returns, and with it once.Do and stop().
LoopRecvDone ==
    /\ loopPc = "top"
    /\ \E c \in Callers :
        /\ cpc[c] = "f_parked"
        /\ cpc' = [cpc EXCEPT ![c] = AfterStop(c)]
    /\ loopPc' = "exited"
    /\ once' = "done"
    /\ doneSent' = doneSent + 1
    /\ execsAfterAbort' = "none"
    /\ UNCHANGED <<selVars, orderedQueues, sema, abort, quit, startPc, loopMsg, tAcq,
                   timerArmed>>
    /\ UNCHANGED <<abortCloses, leftover, dequeued, handed, owed, lastFate, lastErr, late>>
    /\ UNCHANGED <<storeVars, workerVars>>

\* default: p.exec()
\* the exec() calls started since p.abort was closed, one more
NextExecCount ==
    IF ~abort THEN "none"
    ELSE IF execsAfterAbort = "none" THEN "one" ELSE "many"

\* mutant: the select takes its default case although a sender is waiting
\* on p.done
LoopDefault_IgnoreDone ==
    /\ loopPc = "top"
    /\ loopPc' = "exec"
    /\ execsAfterAbort' = NextExecCount
    /\ UNCHANGED <<selVars, orderedQueues, sema, abort, quit, once, startPc, loopMsg, cpc,
                   tAcq, timerArmed>>
    /\ UNCHANGED <<abortCloses, doneSent, leftover, dequeued, handed, owed, lastFate,
                   lastErr, late>>
    /\ UNCHANGED <<storeVars, workerVars>>

LoopDefault ==
    /\ loopPc = "top"
    /\ ~SenderWaiting
    /\ loopPc' = "exec"
    /\ execsAfterAbort' = NextExecCount
    /\ UNCHANGED <<selVars, orderedQueues, sema, abort, quit, once, startPc, loopMsg, cpc,
                   tAcq, timerArmed>>
    /\ UNCHANGED <<abortCloses, doneSent, leftover, dequeued, handed, owed, lastFate,
                   lastErr, late>>
    /\ UNCHANGED <<storeVars, workerVars>>

\* Mutant: an unexpected Dequeue error ends the dispatch goroutine.
LoopExec_ExitOnError ==
    /\ loopPc = "exec"
    /\ dequeued' = TRUE
    /\ \E qnames \in queues, ok \in StoreOutcomes :
        LET q == FirstNonEmpty(qnames) IN
        IF ok /\ q # ""
        THEN /\ StoreDequeue(q, TRUE)
             /\ loopMsg' = Head(queue[q])
             /\ loopPc' = "wait"
             /\ owed' = [owed EXCEPT ![Head(queue[q])] = @ + 1]
             /\ lastFate' = [lastFate EXCEPT ![Head(queue[q])] = "pending"]
             /\ lastErr' = [lastErr EXCEPT ![Head(queue[q])] = "nil"]
        ELSE /\ IF ok THEN UNCHANGED storeVars ELSE StoreFailed
             /\ loopPc' = IF ok THEN "top" ELSE "exited"
             /\ UNCHANGED <<loopMsg, owed, lastFate, lastErr>>
    /\ UNCHANGED <<selVars, orderedQueues, sema, abort, quit, once, startPc, cpc, tAcq,
                   timerArmed>>
    /\ leftover' = {}
    /\ UNCHANGED <<execsAfterAbort, abortCloses, doneSent, handed, late>>
    /\ UNCHANGED workerVars

\* exec() up to its select: p.queues(), Dequeue, the two error returns.
LoopExec ==
    /\ loopPc = "exec"
    /\ dequeued' = TRUE
    /\ \E qnames \in queues, ok \in StoreOutcomes :
        LET q == FirstNonEmpty(qnames) IN
        IF ok /\ q # ""
        THEN /\ StoreDequeue(q, TRUE)
             /\ loopMsg' = Head(queue[q])
             /\ loopPc' = "wait"
             /\ owed' = [owed EXCEPT ![Head(queue[q])] = @ + 1]
             /\ lastFate' = [lastFate EXCEPT ![Head(queue[q])] = "pending"]
             /\ lastErr' = [lastErr EXCEPT ![Head(queue[q])] = "nil"]
        ELSE /\ IF ok THEN UNCHANGED storeVars ELSE StoreFailed
             /\ loopPc' = "top"
             /\ UNCHANGED <<loopMsg, owed, lastFate, lastErr>>
    /\ UNCHANGED <<selVars, orderedQueues, sema, abort, quit, once, startPc, cpc, tAcq,
                   timerArmed>>
    /\ leftover' = {}
    /\ UNCHANGED <<execsAfterAbort, abortCloses, doneSent, handed, late>>
    /\ UNCHANGED workerVars

\* Mutant: on abort exec() returns without p.requeue(msg).
LoopAbort_NoRequeue ==
    /\ loopPc = "wait"
    /\ abort
    /\ loopMsg' = NoMsg
    /\ loopPc' = "top"
    /\ UNCHANGED <<selVars, orderedQueues, sema, abort, quit, once, startPc, cpc,
                   tAcq, timerArmed>>
    /\ UNCHANGED <<storeVars, workerVars, histVars>>

\* case <-p.abort: requeue and return.
LoopAbort ==
    /\ loopPc = "wait"
    /\ abort
    /\ \E ok \in StoreOutcomes :
        /\ requeue(loopMsg, ok)
        /\ owed' = [owed EXCEPT ![loopMsg] = IF ok THEN @ - 1 ELSE @]
        /\ lastFate' = [lastFate EXCEPT ![loopMsg] = IF ok THEN "Requeue" ELSE "failed"]
    /\ loopMsg' = NoMsg
    /\ loopPc' = "top"
    /\ UNCHANGED <<selVars, orderedQueues, sema, abort, quit, once, startPc, cpc, tAcq,
                   timerArmed>>
    /\ UNCHANGED <<execsAfterAbort, abortCloses, doneSent, leftover, dequeued, handed, lastErr, late>>
    /\ UNCHANGED workerVars

\* Mutant: the channel made one slot too large.
SemaHasRoom_OneMore == sema < Concurrency + 1

\* p.sema <- struct{}{} can proceed: the channel has room.
SemaHasRoom == sema < Concurrency

\* case p.sema <- struct{}{}: the worker goroutine and, in it, the goroutine
\* that calls the handler.  A worker is named by its msg: the msg the loop
\* holds has just been moved to the in-progress list, and a msg that has a
\* worker before its terminal operation is in that list already.
LoopAcquire ==
    /\ loopPc = "wait"
    /\ SemaHasRoom
    /\ wpc[loopMsg] = "none"
    /\ wpc' = [wpc EXCEPT ![loopMsg] = IF quit THEN "quit" ELSE "wait"]
    /\ hrun' = [hrun EXCEPT ![loopMsg] = TRUE]
    /\ resCh' = [resCh EXCEPT ![loopMsg] = "empty"]
    /\ sema' = sema + 1
    /\ handed' = [handed EXCEPT ![loopMsg] = @ + 1]
    /\ loopMsg' = NoMsg
    /\ loopPc' = "top"
    /\ UNCHANGED <<selVars, orderedQueues, abort, quit, once, startPc, cpc, tAcq, timerArmed>>
    /\ UNCHANGED <<execsAfterAbort, abortCloses, doneSent, leftover, dequeued, owed, lastFate, lastErr, late>>
    /\ UNCHANGED <<storeVars, wres, releasing, orphans>>

\* ---- workers
\* resCh <- perform(p.handler, task): the handler returns (or panics).  resCh
\* has room for one value, so this never blocks.
HandlerReturn(m, outcome) ==
    /\ hrun[m]
    /\ hrun' = [hrun EXCEPT ![m] = FALSE]
    /\ resCh' = [resCh EXCEPT ![m] = perform(outcome)]
    /\ UNCHANGED <<wpc, wres, releasing, orphans>>
    /\ UNCHANGED <<storeVars, procVars, histVars>>

\* The same, in a handler goroutine whose worker has returned on quit: the
\* value goes to a channel nobody reads.
OrphanReturn ==
    /\ orphans > 0
    /\ orphans' = orphans - 1
    /\ UNCHANGED <<wpc, wres, hrun, resCh, releasing>>
    /\ UNCHANGED <<storeVars, procVars, histVars>>

\* Mutant: the wrapper waits for resCh only, without the quit case.
WorkerQuit_NoQuitCase(m) ==
    /\ FALSE
    /\ UNCHANGED vars

\* case <-p.quit: return without a store operation.
WorkerQuit(m) ==
    /\ wpc[m] = "quit"
    /\ wpc' = [wpc EXCEPT ![m] = "none"]
    /\ releasing' = releasing + 1
    /\ orphans' = IF hrun[m] THEN orphans + 1 ELSE orphans
    /\ hrun' = [hrun EXCEPT ![m] = FALSE]
    /\ resCh' = [resCh EXCEPT ![m] = "empty"]
    /\ lastFate' = [lastFate EXCEPT ![m] = "abandoned"]
    /\ UNCHANGED wres
    /\ UNCHANGED <<execsAfterAbort, abortCloses, doneSent, leftover, dequeued, handed, owed, lastErr,
                   late>>
    /\ UNCHANGED <<storeVars, procVars>>

\* case resErr := <-resCh
WorkerRecv(m) ==
    /\ wpc[m] = "wait"
    /\ resCh[m] # "empty"
    /\ wres' = [wres EXCEPT ![m] = resCh[m]]
    /\ resCh' = [resCh EXCEPT ![m] = "empty"]
    /\ wpc' = [wpc EXCEPT ![m] = "terminal"]
    /\ UNCHANGED <<hrun, releasing, orphans>>
    /\ UNCHANGED <<storeVars, procVars, histVars>>

\* Mutant: the comparison written > instead of >=.
RetryExhausted_Strict(m) == Retried[m] > MsgRetry(m)

\* msg.Retried >= msg.Retry
RetryExhausted(m) == Retried[m] >= MsgRetry(m)

\* Mutant: a recovered panic is never retried.
TerminalOp_PanicKills(m, resErr) ==
    IF resErr = "panic: 42" THEN "Kill"
    ELSE IF resErr # "nil"
    THEN (IF RetryExhausted(m) THEN "Kill" ELSE "Retry")
    ELSE "Done"

\* The operation the worker ends msg with: "Kill", "Retry" or "Done".
TerminalOp(m, resErr) ==
    IF resErr # "nil"
    THEN (IF RetryExhausted(m) THEN "Kill" ELSE "Retry")
    ELSE "Done"

\* p.kill, p.retry or p.markAsDone, and the return of the worker's function.
WorkerTerminal(m) ==
    /\ wpc[m] = "terminal"
    /\ LET op == TerminalOp(m, wres[m])
       IN \E ok \in StoreOutcomes :
            /\ CASE op = "Kill" -> kill(m, ok)
                 [] op = "Retry" -> retry(m, ok)
                 [] op = "Done" -> markAsDone(m, ok)
            /\ owed' = [owed EXCEPT ![m] = IF ok THEN @ - 1 ELSE @]
            /\ lastFate' = [lastFate EXCEPT ![m] = IF ok THEN op ELSE "failed"]
            /\ lastErr' = [lastErr EXCEPT ![m] = IF ok THEN wres[m] ELSE "nil"]
    /\ wpc' = [wpc EXCEPT ![m] = "none"]
    /\ wres' = [wres EXCEPT ![m] = "nil"]
    /\ releasing' = releasing + 1
    /\ UNCHANGED <<hrun, resCh, orphans>>
    /\ UNCHANGED <<execsAfterAbort, abortCloses, doneSent, leftover, dequeued, handed, late>>
    /\ UNCHANGED procVars

\* Mutant: the worker returns without the deferred receive from p.sema.
WorkerRelease_NoRelease ==
    /\ releasing > 0
    /\ releasing' = releasing - 1
    /\ UNCHANGED <<wpc, wres, hrun, resCh, orphans>>
    /\ UNCHANGED procVars
    /\ UNCHANGED <<storeVars, histVars>>

\* defer func() { <-p.sema }()
WorkerRelease ==
    /\ releasing > 0
    /\ releasing' = releasing - 1
    /\ sema' = sema - 1
    /\ UNCHANGED <<wpc, wres, hrun, resCh, orphans>>
    /\ UNCHANGED <<selVars, orderedQueues, abort, quit, once, startPc, loopPc, loopMsg, cpc,
                   tAcq, timerArmed>>
    /\ UNCHANGED <<storeVars, histVars>>

\* ---- terminate()
CallTerminate ==
    /\ cpc[TermCaller] = "idle"
    /\ OnceDo(TermCaller)
    /\ UNCHANGED <<selVars, orderedQueues, sema, abort, quit, startPc, loopPc, loopMsg,
                   tAcq, timerArmed>>
    /\ UNCHANGED <<storeVars, workerVars, histVars>>

\* time.AfterFunc(timeout, func() { close(p.quit) })
TermTimer ==
    /\ cpc[TermCaller] = "t_timer"
    /\ timerArmed' = TRUE
    /\ tAcq' = 0
    /\ cpc' = [cpc EXCEPT ![TermCaller] = "t_acquire"]
    /\ UNCHANGED <<selVars, orderedQueues, sema, abort, quit, once, startPc, loopPc, loopMsg>>
    /\ UNCHANGED <<storeVars, workerVars, histVars>>

\* Mutant: the close of p.quit takes every worker in its select, also one
\* whose handler has completed.
TimerFire_WakeAll ==
    /\ timerArmed
    /\ timerArmed' = FALSE
    /\ quit' = TRUE
    /\ wpc' = [m \in Msgs |-> IF wpc[m] = "wait" THEN "quit" ELSE wpc[m]]
    /\ late' = \E m \in Msgs : hrun[m]
    /\ UNCHANGED <<selVars, orderedQueues, sema, abort, once, startPc, loopPc,
                   loopMsg, cpc, tAcq>>
    /\ UNCHANGED <<wres, hrun, resCh, releasing, orphans>>
    /\ UNCHANGED <<execsAfterAbort, abortCloses, doneSent, leftover, dequeued, handed, owed, lastFate, lastErr>>
    /\ UNCHANGED storeVars

\* the timer fires: close(p.quit).  The close wakes the workers that wait in
\* their select with nothing in resCh, and they take the quit case; a worker
\* whose resCh already holds the result was woken by that send and takes it.
TimerFire ==
    /\ timerArmed
    /\ timerArmed' = FALSE
    /\ quit' = TRUE
    /\ wpc' = [m \in Msgs |->
                IF wpc[m] = "wait" /\ resCh[m] = "empty" THEN "quit" ELSE wpc[m]]
    /\ late' = \E m \in Msgs : hrun[m]
    /\ UNCHANGED <<selVars, orderedQueues, sema, abort, once, startPc, loopPc,
                   loopMsg, cpc, tAcq>>
    /\ UNCHANGED <<wres, hrun, resCh, releasing, orphans>>
    /\ UNCHANGED <<execsAfterAbort, abortCloses, doneSent, leftover, dequeued, handed, owed, lastFate, lastErr>>
    /\ UNCHANGED storeVars

\* Mutant: the acquire loop stops one token short.
TermTokens_OneShort == Concurrency - 1

\* cap(p.sema): the tokens terminate() takes before it restores.
TermTokens == Concurrency

\* p.sema <- struct{}{} in the for loop
TermAcquire ==
    /\ cpc[TermCaller] = "t_acquire"
    /\ tAcq < TermTokens
    /\ SemaHasRoom
    /\ sema' = sema + 1
    /\ tAcq' = tAcq + 1
    /\ UNCHANGED <<selVars, orderedQueues, abort, quit, once, startPc, loopPc, loopMsg, cpc,
                   timerArmed>>
    /\ UNCHANGED <<storeVars, workerVars, histVars>>

\* Mutant: terminate() returns without its final restore().
TermRestore_NoRestore ==
    /\ cpc[TermCaller] = "t_acquire"
    /\ tAcq >= TermTokens
    /\ cpc' = [cpc EXCEPT ![TermCaller] = "t_returned"]
    /\ UNCHANGED <<selVars, orderedQueues, sema, abort, quit, once, startPc, loopPc, loopMsg,
                   tAcq, timerArmed>>
    /\ UNCHANGED <<storeVars, workerVars, histVars>>

\* p.restore() and return
TermRestore ==
    /\ cpc[TermCaller] = "t_acquire"
    /\ tAcq >= TermTokens
    /\ \E ok \in StoreOutcomes :
        /\ restore(ok)
        /\ owed' = [m \in Msgs |->
                      IF ok /\ m \in SeqToSet(inProgress) THEN owed[m] - 1 ELSE owed[m]]
        /\ lastFate' = [m \in Msgs |->
                      IF ok /\ m \in SeqToSet(inProgress)
                      THEN (IF lastFate[m] = "abandoned" THEN "restored" ELSE "swept")
                      ELSE lastFate[m]]
    /\ cpc' = [cpc EXCEPT ![TermCaller] = "t_returned"]
    /\ UNCHANGED <<selVars, orderedQueues, sema, abort, quit, once, startPc, loopPc, loopMsg,
                   tAcq, timerArmed>>
    /\ UNCHANGED <<execsAfterAbort, abortCloses, doneSent, leftover, dequeued, handed, lastErr, late>>
    /\ UNCHANGED workerVars

\* ---- p.queues() on a processor of any configuration
\* queues() up to r.Shuffle: the two early returns, or names built and shuffled.
QueuesBuild ==
    /\ qpc \in {"new", "returned"}
    /\ IF QueuesEarly
       THEN /\ returnedNames' = queuesFrom(<< >>)
            /\ qpc' = "returned"
            /\ UNCHANGED shuffledNames
       ELSE /\ shuffledNames' \in Shuffled(queueConfig)
            /\ qpc' = "shuffled"
            /\ returnedNames' = << >>
    /\ UNCHANGED <<queueConfig, orderedQueues, sema, abort, quit, once, startPc,
                   loopPc, loopMsg, cpc, tAcq, timerArmed>>
    /\ UNCHANGED <<storeVars, workerVars, histVars>>

\* return uniq(names, len(p.queueConfig)); names dies with the call.
QueuesReturn ==
    /\ qpc = "shuffled"
    /\ returnedNames' = queuesFrom(shuffledNames)
    /\ shuffledNames' = << >>
    /\ qpc' = "returned"
    /\ UNCHANGED <<queueConfig, orderedQueues, sema, abort, quit, once, startPc,
                   loopPc, loopMsg, cpc, tAcq, timerArmed>>
    /\ UNCHANGED <<storeVars, workerVars, histVars>>

\* ---------------------------------------------------------- specification
Next ==
    \/ StartRestore
    \/ StartSpawn
    \/ \E c \in Callers : CallStop(c)
    \/ \E c \in Callers : OnceWake(c)
    \/ \E c \in Callers : StopCloseAbort(c)
    \/ \E c \in Callers : StopSend(c)
    \/ LoopRecvDone
    \/ LoopDefault
    \/ LoopExec
    \/ LoopAbort
    \/ LoopAcquire
    \/ \E m \in Msgs, outcome \in HandlerOutcomes : HandlerReturn(m, outcome)
    \/ OrphanReturn
    \/ \E m \in Msgs : WorkerQuit(m)
    \/ \E m \in Msgs : WorkerRecv(m)
    \/ \E m \in Msgs : WorkerTerminal(m)
    \/ WorkerRelease
    \/ CallTerminate
    \/ TermTimer
    \/ TimerFire
    \/ TermAcquire
    \/ TermRestore
    \/ \E m \in Msgs : Scheduler(m)

Spec == Init /\ [][Next]_vars

\* The steps the Go scheduler and the timer take without anybody's help: all
\* but the calls of start(), stop() and terminate(), a handler returning, and
\* the scheduler's moves.
Fairness ==
    /\ WF_vars(StartSpawn)
    /\ \A c \in Callers :
        /\ WF_vars(OnceWake(c))
        /\ WF_vars(StopCloseAbort(c))
        /\ WF_vars(StopSend(c))
    /\ WF_vars(LoopRecvDone)
    /\ WF_vars(LoopDefault)
    /\ WF_vars(LoopExec)
    /\ WF_vars(LoopAbort)
    /\ WF_vars(LoopAcquire)
    /\ \A m \in Msgs :
        /\ WF_vars(WorkerQuit(m))
        /\ WF_vars(WorkerRecv(m))
        /\ WF_vars(WorkerTerminal(m))
    /\ WF_vars(WorkerRelease)
    /\ WF_vars(TermTimer)
    /\ WF_vars(TimerFire)
    /\ WF_vars(TermAcquire)
    /\ WF_vars(TermRestore)

FairSpec == Init /\ [][Next]_vars /\ Fairness

\* The processor on a store whose calls may fail MaxStoreErrs times; the
\* store starts with every message in its queue.
FaultInit ==
    /\ InitStore({}, MaxStoreErrs)
    /\ newProcessor(MainConfig, FALSE)
    /\ InitHistory

FaultSpec == FaultInit /\ [][Next]_vars

\* The queue selector alone: a processor constructed with any of the
\* configurations, strict or not, on which p.queues() is called again and again.
QueuesInit ==
    /\ InitStore({}, 0)
    /\ \E qcfg \in Configs, strict \in BOOLEAN : newProcessor(qcfg, strict)
    /\ InitHistory

QueuesNext ==
    \/ QueuesBuild
    \/ QueuesReturn

QueuesSpec == QueuesInit /\ [][QueuesNext]_vars

\* ---------------------------------------------------------------- claims
\* handler invocations that have not returned
Running == Cardinality({m \in Msgs : hrun[m]}) + orphans
TermReturned == cpc[TermCaller] = "t_returned"
RECURSIVE InQueues(_, _)
\* the occurrences of m in the queues named
InQueues(names, m) ==
    IF names = {} THEN 0
    ELSE LET q == CHOOSE x \in names : TRUE
         IN Count(queue[q], m) + InQueues(names \ {q}, m)

Places(m) ==
    InQueues(QNames, m) + Count(inProgress, m)
    + (IF m \in retryBucket THEN 1 ELSE 0)
    + (IF m \in dead THEN 1 ELSE 0)
    + (IF m \in completed THEN 1 ELSE 0)

\* C1: the handlers executing at the same time, counted from the spawn of the
\* worker until the handler itself returns (so also those whose wrapper left on
\* quit), are never more than the concurrency limit n.
C1_BoundedConcurrency == Running <= Concurrency

\* n handlers are executing, one of them abandoned by its wrapper on quit.
C1_Witness ==
    /\ Running = Concurrency
    /\ orphans > 0

\* C2: every message Dequeue returned is settled exactly once: never a second
\* fate for one Dequeue, never a new Dequeue of a message whose last one is
\* unsettled, and when terminate() has returned every Dequeue has been settled
\* by Done, Retry, Kill, Requeue, or by the final RestoreUnfinished after its
\* worker left on quit.
C2_Conservation ==
    \A m \in Msgs :
        /\ owed[m] \in {0, 1}
        /\ TermReturned =>
            /\ owed[m] = 0
            /\ lastFate[m] \in {"none", "Done", "Retry", "Kill", "Requeue", "restored"}

\* terminate() has returned; one message was abandoned and restored, another
\* one got a terminal operation from its worker.
C2_Witness ==
    /\ TermReturned
    /\ \E m \in Msgs : lastFate[m] = "restored"
    /\ \E m \in Msgs : lastFate[m] \in {"Done", "Retry", "Kill"}

\* C3: when terminate() has returned, the in-progress list is empty.
C3_TerminateEmptiesInProgress == TermReturned => inProgress = << >>

\* terminate() has returned after abandoning a handler that is still running.
C3_Witness ==
    /\ TermReturned
    /\ orphans > 0
    /\ \E m \in Msgs : lastFate[m] = "restored"

\* C4: every message is in exactly one of: a queue, the in-progress list, the
\* retry bucket, the dead bucket, completed.
C4_OnePlace == \A m \in Msgs : Places(m) = 1

\* After a Kill and a Retry: one message is dead, another in the retry bucket.
C4_Witness ==
    /\ retryBucket # {}
    /\ dead # {}

\* C5: a message is never handed to the handler more than Retry + 1 times; one
\* in the retry bucket has had each of its attempts counted in Retried, which
\* is still within Retry; and one in the dead bucket (each of its attempts
\* failed) was handed to the handler exactly Retry + 1 times, Retried having
\* reached Retry.  With Retry = 0 that is one attempt.
C5_RetryDiscipline ==
    \A m \in Msgs :
        /\ handed[m] <= MsgRetry(m) + 1
        /\ m \in retryBucket => handed[m] = Retried[m] /\ Retried[m] <= MsgRetry(m)
        /\ m \in dead => handed[m] = MsgRetry(m) + 1 /\ Retried[m] = MsgRetry(m)

\* A message with Retry = 0 and one with Retry = MaxRetry are both dead.
C5_Witness ==
    /\ \E m \in dead : MsgRetry(m) = 0 /\ handed[m] = 1
    /\ \E m \in dead : MsgRetry(m) = MaxRetry /\ handed[m] = MaxRetry + 1

\* C6: while the dispatch goroutine exists and has not yet called Dequeue, the
\* in-progress list is empty and every message that was in it at construction
\* is in its source queue.
C6_RestoreBeforeDequeue ==
    (loopPc # "none" /\ ~dequeued) =>
        /\ inProgress = << >>
        /\ \A m \in leftover : Count(queue[MsgQueue(m)], m) = 1

\* The loop is about to call Dequeue for the first time; the store had
\* messages left in progress.
C6_Witness ==
    /\ leftover # {}
    /\ loopPc = "exec"
    /\ ~dequeued

\* C7: on a started processor terminate() returns, whether or not the handlers
\* in flight ever complete; and when it has returned the in-progress list is
\* empty and every task abandoned on quit is in its source queue again.
C7_TerminateReturns ==
    /\ (cpc[TermCaller] # "idle" /\ startPc # "new") ~> TermReturned
    /\ [](TermReturned =>
            /\ inProgress = << >>
            /\ \A m \in Msgs :
                lastFate[m] = "restored" => Count(queue[MsgQueue(m)], m) = 1)

\* terminate() has returned while the handler it abandoned has still not
\* completed; its task is back in its queue.
C7_Witness ==
    /\ TermReturned
    /\ quit
    /\ orphans > 0
    /\ \E m \in Msgs : lastFate[m] = "restored" /\ Count(queue[MsgQueue(m)], m) = 1

InStop(c) == cpc[c] \in {"once_wait", "f_close", "f_send", "f_parked"}

\* C8: however many times and however concurrently stop() is called, abort is
\* closed at most once and at most one value is sent on done; and from the
\* return of the first call on, abort is closed, the one value has been
\* delivered, the loop has exited and no later call runs the shutdown again.
C8_StopIdempotent ==
    /\ abortCloses <= 1
    /\ doneSent <= 1
    /\ once = "done" =>
        /\ abort
        /\ abortCloses = 1
        /\ doneSent = 1
        /\ loopPc = "exited"
        /\ \A c \in Callers : cpc[c] \notin {"f_close", "f_send", "f_parked"}

\* The first call has completed the shutdown while another caller, arrived
\* during it, is still inside once.Do: that call adds nothing.
C8_Witness ==
    /\ once = "done"
    /\ \E c \in Callers : cpc[c] = "once_wait"
    /\ abortCloses = 1
    /\ doneSent = 1

\* C9: a stop() or terminate() call made on a processor whose start() is never
\* called returns.
C9_StopBeforeStartReturns ==
    \A c \in Callers :
        (InStop(c) /\ startPc = "new") ~> (~InStop(c) \/ startPc # "new")

\* C10 as claimed: once abort is closed no message is handed to a new worker.
C10_NoNewTaskAfterAbort == [][abort => handed' = handed]_vars

\* C10 amended: once stop() has returned no message is handed to a new worker
\* and no handler is started; and the steps of stop() (closing abort,
\* delivering on done) leave the workers and their slots as they are.
C10_NoNewTaskAfterStopReturns ==
    /\ [][once = "done" =>
            /\ handed' = handed
            /\ \A m \in Msgs : hrun'[m] => hrun[m]]_vars
    /\ [][(abort' # abort \/ doneSent' # doneSent) => UNCHANGED <<workerVars, sema>>]_vars

\* stop() has returned, quit has not fired, and a handler that was running
\* has returned: its worker is about to do its terminal operation.
C10_Witness ==
    /\ once = "done"
    /\ ~quit
    /\ \E m \in Msgs : wpc[m] = "terminal"

\* weighted-random mode: not strict, at least two queues, every weight positive
WeightedRandom ==
    /\ orderedQueues = << >>
    /\ Cardinality(DOMAIN queueConfig) >= 2
    /\ \A q \in DOMAIN queueConfig : queueConfig[q] > 0

\* C11: in weighted-random mode, whatever the shuffle gives, the list queues()
\* returns has every configured queue exactly once and as many elements as
\* there are queues; and its first element is the first element of the
\* shuffled multiset, so a queue is first only when one of its copies is.
C11_QueuesEachOnce ==
    /\ [](WeightedRandom /\ qpc = "returned" =>
            /\ Len(returnedNames) = Cardinality(DOMAIN queueConfig)
            /\ \A q \in DOMAIN queueConfig : Count(returnedNames, q) = 1)
    /\ [][WeightedRandom /\ qpc = "shuffled" /\ qpc' = "returned" =>
            /\ Count(shuffledNames, returnedNames'[1]) = queueConfig[returnedNames'[1]]
            /\ returnedNames'[1] = shuffledNames[1]]_vars

\* Three queues, and the list returned starts with the one of least weight.
C11_Witness ==
    /\ WeightedRandom
    /\ qpc = "returned"
    /\ Cardinality(DOMAIN queueConfig) = 3
    /\ \A q \in DOMAIN queueConfig \ {returnedNames[1]} :
        queueConfig[returnedNames[1]] < queueConfig[q]

\* C12: in strict mode p.orderedQueues has each configured queue exactly once,
\* in non-increasing order of weight, and never changes; and it is the list
\* every call of queues() has returned.
C12_StrictSameList ==
    /\ [](orderedQueues # << >> =>
            /\ Len(orderedQueues) = Cardinality(DOMAIN queueConfig)
            /\ \A q \in DOMAIN queueConfig : Count(orderedQueues, q) = 1
            /\ \A i, j \in 1..Len(orderedQueues) :
                i < j => queueConfig[orderedQueues[i]] >= queueConfig[orderedQueues[j]]
            /\ qpc = "returned" => returnedNames = orderedQueues)
    /\ [][orderedQueues' = orderedQueues /\ queueConfig' = queueConfig]_vars

\* Strict mode with {A:3, B:2, C:1}: a call has returned [A, B, C].
C12_Witness ==
    /\ queueConfig = ("A" :> 3) @@ ("B" :> 2) @@ ("C" :> 1)
    /\ orderedQueues # << >>
    /\ qpc = "returned"
    /\ returnedNames = <<"A", "B", "C">>

\* C13: a message the loop holds while abort is closed and all n slots stay
\* held is requeued; the step that requeues a message takes the message the
\* loop holds, which has no worker and no handler, from the in-progress list
\* to the head of its source queue and invokes nothing; and no handler is
\* invoked while all slots are held.
C13_RequeueOnAbort ==
    /\ \A m \in Msgs :
        (loopPc = "wait" /\ loopMsg = m /\ abort /\ sema = Concurrency)
            ~> (lastFate[m] = "Requeue" \/ sema < Concurrency)
    /\ [][\A m \in Msgs :
            (lastFate'[m] = "Requeue" /\ lastFate[m] # "Requeue") =>
                /\ abort
                /\ loopPc = "wait" /\ loopMsg = m /\ loopMsg' = NoMsg
                /\ lastFate[m] = "pending"
                /\ wpc[m] = "none" /\ ~hrun[m]
                /\ Count(inProgress, m) = 1
                /\ Count(inProgress', m) = 0
                /\ Head(queue'[MsgQueue(m)]) = m
                /\ handed' = handed /\ hrun' = hrun]_vars
    /\ [][sema = Concurrency => handed' = handed]_vars

\* All slots are held by running handlers, stop() was called, and the first
\* message of a queue is one that was requeued without ever being executed.
C13_Witness ==
    /\ abort
    /\ sema = Concurrency
    /\ Running = Concurrency
    /\ \E m \in Msgs :
        /\ lastFate[m] = "Requeue"
        /\ handed[m] = 0
        /\ queue[MsgQueue(m)] # << >>
        /\ Head(queue[MsgQueue(m)]) = m

LiveWorkers == Cardinality({m \in Msgs : wpc[m] # "none"}) + releasing

\* C15: the tokens in the semaphore are those of the live workers and those
\* terminate() has taken; so before terminate() takes its first one the
\* tokens held equal the live workers, and none is held when all workers have
\* exited: every exit path of a worker gives its token back, once.
C15_SlotPerWorker ==
    /\ sema = LiveWorkers + tAcq
    /\ sema <= Concurrency
    /\ (tAcq = 0 /\ LiveWorkers = 0) => sema = 0

\* Before any shutdown: one worker ended with a failed store operation,
\* another with Retry or Kill, and all tokens are back.
C15_Witness ==
    /\ ~abort
    /\ sema = 0
    /\ LiveWorkers = 0
    /\ \E m \in Msgs : lastFate[m] = "failed" /\ handed[m] > 0
    /\ \E m \in Msgs : lastFate[m] \in {"Retry", "Kill"}

\* C16: when Requeue, Done, Retry or Kill fails the store is as it was, the
\* message in the in-progress list, and the worker (if the call was a
\* worker's) goes on to release its slot while the loop is where it was or
\* back at the top of its for; a message whose operation failed stays in the
\* in-progress list until a RestoreUnfinished puts it back in its source
\* queue; a failing Dequeue leaves the store as it was and the loop goes to
\* its next iteration; and the dispatch goroutine ends only by receiving done.
C16_StoreFailureTolerated ==
    /\ [][\A m \in Msgs :
            (lastFate'[m] = "failed" /\ lastFate[m] # "failed") =>
                /\ <<queue, inProgress, retryBucket, dead, completed, Retried>>' =
                       <<queue, inProgress, retryBucket, dead, completed, Retried>>
                /\ Count(inProgress', m) = 1
                /\ wpc'[m] = "none"
                /\ IF wpc[m] = "terminal"
                   THEN releasing' = releasing + 1 /\ loopPc' = loopPc
                   ELSE loopMsg = m /\ loopPc' = "top"]_vars
    /\ [](\A m \in Msgs : lastFate[m] = "failed" => Count(inProgress, m) = 1)
    /\ [][\A m \in Msgs :
            (lastFate[m] = "failed" /\ lastFate'[m] # "failed") =>
                /\ lastFate'[m] = "swept"
                /\ inProgress' = << >>
                /\ Count(queue'[MsgQueue(m)], m) = 1]_vars
    /\ [][(loopPc = "exec" /\ loopPc' # "exec" /\ errBudget' # errBudget) =>
            /\ <<queue, inProgress, retryBucket, dead, completed, Retried>>' =
                   <<queue, inProgress, retryBucket, dead, completed, Retried>>
            /\ loopPc' = "top"]_vars
    /\ [][(loopPc' = "exited" /\ loopPc # "exited") => doneSent' = doneSent + 1]_vars

\* terminate() has returned; the message of a worker whose terminal store
\* operation failed was put back in its queue by the final restore.
C16_Witness ==
    /\ TermReturned
    /\ errBudget < MaxStoreErrs
    /\ \E m \in Msgs :
        /\ lastFate[m] = "swept"
        /\ handed[m] > 0
        /\ Count(queue[MsgQueue(m)], m) = 1

\* C17: perform turns a panic into an error with a synthetic text; the worker
\* that received it ends the message as it ends a failed one, with Retry while
\* Retried < Retry and with Kill otherwise, giving the operation that text,
\* and goes on to release its slot,
\* the loop staying where it is; a worker that waits in its select when the
\* panic's error arrives does reach that terminal operation; and the dispatch
\* goroutine ends only by receiving done.
C17_PanicIsFailure ==
    /\ [](/\ perform("panic") = "panic: 42"
          /\ perform("panic") # perform("ok")
          /\ \A m \in Msgs :
                TerminalOp(m, perform("panic")) = TerminalOp(m, perform("fail")))
    /\ [][\A m \in Msgs :
            (wpc[m] = "terminal" /\ wres[m] = perform("panic") /\ wpc'[m] = "none") =>
                /\ lastFate'[m] = IF Retried[m] < MsgRetry(m) THEN "Retry" ELSE "Kill"
                /\ lastErr'[m] = "panic: 42"
                /\ IF Retried[m] < MsgRetry(m)
                   THEN m \in retryBucket' /\ Retried'[m] = Retried[m] + 1
                   ELSE m \in dead'
                /\ Count(inProgress', m) = 0
                /\ releasing' = releasing + 1
                /\ loopPc' = loopPc]_vars
    /\ \A m \in Msgs :
        (wpc[m] = "wait" /\ resCh[m] = perform("panic"))
            ~> (lastFate[m] \in {"Retry", "Kill"} /\ wpc[m] = "none")
    /\ [][(loopPc' = "exited" /\ loopPc # "exited") =>
            \E c \in Callers : cpc[c] = "f_parked" /\ cpc'[c] # "f_parked"]_vars

\* A message is in the retry bucket with the error of a panic and another is
\* dead with one: the loop served a task after a panic, and is still running.
C17_Witness ==
    /\ \E m \in retryBucket : lastErr[m] = "panic: 42"
    /\ \E m \in dead : lastErr[m] = "panic: 42"
    /\ loopPc \notin {"none", "exited"}

\* C18: on a processor whose start() has been called, a caller inside stop()
\* gets out of it, whether or not any handler ever completes and wherever the
\* loop is, also in its wait for a slot with all slots held; and once stop()
\* has returned the dispatch goroutine has exited.
C18_StopReturns ==
    /\ \A c \in Callers : (InStop(c) /\ startPc # "new") ~> ~InStop(c)
    /\ [](once = "done" => loopPc = "exited")
    /\ [](\A c \in Callers : cpc[c] \in {"t_timer", "t_acquire", "t_returned"} =>
            loopPc = "exited")

\* stop() has returned while every slot is held by a handler still running;
\* the loop had been waiting for a slot with a message, which it requeued.
C18_Witness ==
    /\ once = "done"
    /\ \A c \in Callers : ~InStop(c)
    /\ ~quit
    /\ Cardinality({m \in Msgs : hrun[m]}) = Concurrency
    /\ \E m \in Msgs : lastFate[m] = "Requeue" /\ handed[m] = 0

\* C19: the step in which terminate() runs its final restore and returns is
\* taken when the dispatch goroutine has exited, holding no message, and no
\* worker is left: none in its select, none before its Done, Retry or Kill,
\* none before its release; and as long as a worker has its terminal
\* operation still to do, its message is in the in-progress list and in no
\* queue.
C19_RestoreAfterWorkers ==
    /\ [][(TermReturned' /\ ~TermReturned) =>
            /\ loopPc = "exited"
            /\ loopMsg = NoMsg
            /\ LiveWorkers = 0
            /\ sema = Concurrency
            /\ \A m \in SeqToSet(inProgress) : lastFate[m] = "abandoned"]_vars
    /\ [](TermReturned => (loopPc = "exited" /\ LiveWorkers = 0))
    /\ [](\A m \in Msgs :
            wpc[m] \in {"wait", "terminal"} =>
                (Count(inProgress, m) = 1 /\ InQueues(QNames, m) = 0))

\* terminate() holds all n tokens and is about to restore; a message
\* abandoned on quit is in the in-progress list, and another message got its
\* terminal operation from its worker during the shutdown.
C19_Witness ==
    /\ cpc[TermCaller] = "t_acquire"
    /\ tAcq = Concurrency
    /\ \E m \in SeqToSet(inProgress) : lastFate[m] = "abandoned"
    /\ \E m \in Msgs : lastFate[m] \in {"Done", "Retry", "Kill"}

\* C20 as claimed: the loop starts at most one exec() with abort closed.
C20_AtMostOneExecAfterAbort == execsAfterAbort # "many"

\* C20 amended: with abort closed the loop keeps starting exec() calls until
\* the send on done is pending; from then on it starts no exec(): its next
\* select receives done and it exits. Once stop() has returned the loop has
\* exited and no Dequeue is issued.
C20_NoExecOnceSendPending ==
    /\ [][SenderWaiting => ~(loopPc = "top" /\ loopPc' = "exec")]_vars
    /\ [][(SenderWaiting /\ loopPc = "top") => (loopPc' \in {"top", "exited"})]_vars
    /\ [](once = "done" => loopPc = "exited")
    /\ [][once = "done" => ~(loopPc = "exec" /\ loopPc' # "exec")]_vars

\* the send on done is pending while the loop is in an exec() it started
\* with abort closed, before its Dequeue, and that exec() is not the first
\* one since the close.
C20_Witness ==
    /\ SenderWaiting
    /\ loopPc = "exec"
    /\ execsAfterAbort = "many"

====
